---- MODULE Spec2Model ----
(***************************************************************************)
(* A model of the DB-API cursor of duckdb_http (src/__init__.py): the      *)
(* HTTP round trip of Cursor.execute, the parsing of the response body     *)
(* (whole-document JSON, then line-delimited JSON), the shaping of the     *)
(* payload into rows and a description, and the fetch/close protocol.      *)
(*                                                                         *)
(* A response body is a sequence of lines, a line a sequence of JSON       *)
(* tokens: the lexer is abstracted, the grammar is not.  Python values are *)
(* records of one shape, [k, s, items, keys], so that any two compare.     *)
(***************************************************************************)
EXTENDS Integers, Sequences, FiniteSets, TLC

\* ------------------------------------------------------------ bounds
\* Longest response body, in lines.
MaxLines == 2
\* Calls of requests.post in one behaviour.
MaxRequests == 2
\* Largest size handed to fetchmany.
MaxFetch == 2

\* ------------------------------------------------------ Python values
PyNone == [k |-> "none", s |-> "", items |-> <<>>, keys |-> <<>>]
PyInt(n) == [k |-> "int", s |-> n, items |-> <<>>, keys |-> <<>>]
PyStr(t) == [k |-> "str", s |-> t, items |-> <<>>, keys |-> <<>>]
PyList(xs) == [k |-> "list", s |-> "", items |-> xs, keys |-> <<>>]
PyTuple(xs) == [k |-> "tuple", s |-> "", items |-> xs, keys |-> <<>>]
\* A dict keeps insertion order: keys[i] maps to items[i].
PyDict(ks, xs) == [k |-> "dict", s |-> "", items |-> xs, keys |-> ks]

Min(a, b) == IF a < b THEN a ELSE b

Range(f) == {f[i] : i \in DOMAIN f}

\* isinstance(v, dict) and isinstance(v, (list, tuple))
IsDict(v) == v.k = "dict"
IsSeq(v) == v.k \in {"list", "tuple"}

\* len(v); -1 stands for the TypeError of len() on a number or None.
PyLen(v) ==
  CASE v.k \in {"list", "tuple", "dict"} -> Len(v.items)
    [] v.k = "str" -> Len(v.s)
    [] OTHER -> -1

\* bool(v), as `if v:` takes it.
PyTruth(v) ==
  CASE v.k \in {"list", "tuple", "dict"} -> Len(v.items) > 0
    [] v.k = "str" -> v.s # ""
    [] v.k = "int" -> v.s # "0"
    [] OTHER -> FALSE

\* key in d
HasKey(d, key) == \E i \in 1..Len(d.keys) : d.keys[i] = key

\* d.get(key, default)
DictGet(d, key, default) ==
  IF HasKey(d, key)
  THEN d.items[CHOOSE i \in 1..Len(d.keys) : d.keys[i] = key]
  ELSE default

\* d[key] = v while the document is read: a repeated key keeps its first
\* place and takes the last value.
DictPut(d, key, v) ==
  IF HasKey(d, key)
  THEN LET i == CHOOSE j \in 1..Len(d.keys) : d.keys[j] = key
       IN PyDict(d.keys, [d.items EXCEPT ![i] = v])
  ELSE PyDict(Append(d.keys, key), Append(d.items, v))

\* xs[lo:hi] for 0 <= lo, 0 <= hi (Python's slice, clamped to the list).
Slice(xs, lo, hi) == SubSeq(xs, lo + 1, Min(hi, Len(xs)))

\* ------------------------------------------------------------- tokens
TStr(t) == [t |-> "str", s |-> t]
TNum(n) == [t |-> "num", s |-> n]
TNull == [t |-> "null", s |-> "null"]
TBad == [t |-> "bad", s |-> "#"]
LBrace == [t |-> "punct", s |-> "{"]
RBrace == [t |-> "punct", s |-> "}"]
LBrack == [t |-> "punct", s |-> "["]
RBrack == [t |-> "punct", s |-> "]"]
Comma == [t |-> "punct", s |-> ","]
Colon == [t |-> "punct", s |-> ":"]

\* ------------------------------------------------------- json.loads
ParseFail == [ok |-> FALSE, v |-> PyNone, next |-> 0]
ParseOk(v, next) == [ok |-> TRUE, v |-> v, next |-> next]

RECURSIVE ParseValue(_, _), ParseElems(_, _, _), ParseMembers(_, _, _)

\* One JSON value starting at token i of ts.
ParseValue(ts, i) ==
  IF i > Len(ts) THEN ParseFail
  ELSE LET tk == ts[i] IN
    CASE tk.t = "str" -> ParseOk(PyStr(tk.s), i + 1)
      [] tk.t = "num" -> ParseOk(PyInt(tk.s), i + 1)
      [] tk.t = "null" -> ParseOk(PyNone, i + 1)
      [] tk = LBrack ->
           IF i + 1 <= Len(ts) /\ ts[i + 1] = RBrack
           THEN ParseOk(PyList(<<>>), i + 2)
           ELSE ParseElems(ts, i + 1, <<>>)
      [] tk = LBrace ->
           IF i + 1 <= Len(ts) /\ ts[i + 1] = RBrace
           THEN ParseOk(PyDict(<<>>, <<>>), i + 2)
           ELSE ParseMembers(ts, i + 1, PyDict(<<>>, <<>>))
      [] OTHER -> ParseFail

\* The elements of an array after its "[": value ("," value)* "]".
ParseElems(ts, i, acc) ==
  LET r == ParseValue(ts, i) IN
  IF ~r.ok \/ r.next > Len(ts) THEN ParseFail
  ELSE IF ts[r.next] = Comma THEN ParseElems(ts, r.next + 1, Append(acc, r.v))
  ELSE IF ts[r.next] = RBrack THEN ParseOk(PyList(Append(acc, r.v)), r.next + 1)
  ELSE ParseFail

\* The members of an object after its "{": string ":" value, "," or "}".
ParseMembers(ts, i, acc) ==
  IF i + 1 > Len(ts) \/ ts[i].t # "str" \/ ts[i + 1] # Colon THEN ParseFail
  ELSE LET r == ParseValue(ts, i + 2) IN
    IF ~r.ok \/ r.next > Len(ts) THEN ParseFail
    ELSE IF ts[r.next] = Comma
      THEN ParseMembers(ts, r.next + 1, DictPut(acc, ts[i].s, r.v))
    ELSE IF ts[r.next] = RBrace
      THEN ParseOk(DictPut(acc, ts[i].s, r.v), r.next + 1)
    ELSE ParseFail

\* json.loads(text): one value and nothing after it; ok = FALSE is ValueError.
json_loads(ts) ==
  LET r == ParseValue(ts, 1) IN
  IF r.ok /\ r.next = Len(ts) + 1 THEN [ok |-> TRUE, v |-> r.v]
  ELSE [ok |-> FALSE, v |-> PyNone]

\* The tokens of a body: its lines joined (a line break is JSON whitespace).
RECURSIVE Flatten(_)
Flatten(body) ==
  IF body = <<>> THEN <<>> ELSE Head(body) \o Flatten(Tail(body))

\* resp.json(): the whole body as one JSON document.
resp_json(body) == json_loads(Flatten(body))

\* The fallback loop: the values of the non-blank lines that parse, in order.
RECURSIVE LinePayloads(_)
LinePayloads(body) ==
  IF body = <<>> THEN <<>>
  ELSE LET line == Head(body)
           rest == LinePayloads(Tail(body))
       IN IF line = <<>> THEN rest
          ELSE IF json_loads(line).ok THEN <<json_loads(line).v>> \o rest
          ELSE rest

\* ---------------------------------------------------- response bodies
LBlank == <<>>
\* {"x": 1}
LObjX == <<LBrace, TStr("x"), Colon, TNum("1"), RBrace>>
\* {"y": 2, "x": 3}
LObjYX == <<LBrace, TStr("y"), Colon, TNum("2"), Comma,
            TStr("x"), Colon, TNum("3"), RBrace>>
\* [1, "a"]
LArr == <<LBrack, TNum("1"), Comma, TStr("a"), RBrack>>
\* 1
LNum == <<TNum("1")>>
\* not JSON
LBad == <<TBad>>
\* {"columns": ["id"], "types": ["INTEGER"], "data": [[1], [2]]}
LEnv == <<LBrace, TStr("columns"), Colon, LBrack, TStr("id"), RBrack, Comma,
          TStr("types"), Colon, LBrack, TStr("INTEGER"), RBrack, Comma,
          TStr("data"), Colon, LBrack, LBrack, TNum("1"), RBrack, Comma,
          LBrack, TNum("2"), RBrack, RBrack, RBrace>>
\* null
LNull == <<TNull>>
\* [2]
LArrOne == <<LBrack, TNum("2"), RBrack>>
\* [[1],      (the first line of a document that spans two)
LOpen == <<LBrack, LBrack, TNum("1"), RBrack, Comma>>
\* [2, "a"]]  (its last line)
LClose == <<LBrack, TNum("2"), Comma, TStr("a"), RBrack, RBrack>>
\* [{"x": 1}, {"y": 2, "x": 3}]
LArrObjs == <<LBrack>> \o LObjX \o <<Comma>> \o LObjYX \o <<RBrack>>
\* {"data": [[1, 2]]}
LEnvData == <<LBrace, TStr("data"), Colon, LBrack, LBrack, TNum("1"), Comma,
              TNum("2"), RBrack, RBrack, RBrace>>
\* {"columns": ["id", "v"], "types": ["INTEGER"]}
LEnvCols == <<LBrace, TStr("columns"), Colon, LBrack, TStr("id"), Comma,
              TStr("v"), RBrack, Comma, TStr("types"), Colon, LBrack,
              TStr("INTEGER"), RBrack, RBrace>>
\* {"data": 1}
LEnvNum == <<LBrace, TStr("data"), Colon, TNum("1"), RBrace>>
\* {"data": [[1], [2, "a"]]}
LEnvRagged == <<LBrace, TStr("data"), Colon>> \o LOpen \o LClose \o <<RBrace>>

\* The text of each line, by its name; a body is a sequence of line names.
LineText ==
  [blank |-> LBlank, objx |-> LObjX, objyx |-> LObjYX, arr |-> LArr,
   num |-> LNum, bad |-> LBad, env |-> LEnv, null |-> LNull,
   arrone |-> LArrOne, open |-> LOpen, close |-> LClose,
   arrobjs |-> LArrObjs, envdata |-> LEnvData, envcols |-> LEnvCols,
   envnum |-> LEnvNum, envragged |-> LEnvRagged]

Text(body) == [i \in 1..Len(body) |-> LineText[body[i]]]

AllLines == DOMAIN LineText

\* The envelope fields the model reads are arrays, numbers or null.
InDomain(body) ==
  LET doc == resp_json(Text(body)) IN
  (doc.ok /\ IsDict(doc.v)) =>
    \A key \in {"data", "columns", "types"} :
      DictGet(doc.v, key, PyNone).k \in {"list", "int", "none"}

BodiesOver(lines) ==
  {b \in UNION {[1..n -> lines] : n \in 0..MaxLines} : InDomain(b)}

\* {x : x \in S} below only makes TLC enumerate S once and keep it.

\* Bodies of three lines whose middle line is no JSON or blank.
LongBodies ==
  {<<"objx", "bad", "objyx">>, <<"num", "bad", "null">>,
   <<"arr", "blank", "arrone">>, <<"objx", "bad", "num">>}

AllBodies == {b : b \in BodiesOver(AllLines) \cup LongBodies}

\* The bodies the cursor protocol is run on: no row, one row, two rows (of
\* objects, of arrays, of an envelope, of scalars with a null), a document
\* execute fails on, no JSON.
Bodies ==
  {<<>>, <<"objx">>, <<"objx", "objyx">>, <<"arr", "arr">>, <<"env">>,
   <<"null", "num">>, <<"arr">>, <<"bad">>}

\* Parse as it would be if one unparseable line made the fallback loop give
\* up the other lines too.
Parse_all_or_nothing(body) ==
  [body |-> body, doc |-> resp_json(Text(body)),
   payloads |->
     IF \A i \in 1..Len(body) :
          LineText[body[i]] = <<>> \/ json_loads(LineText[body[i]]).ok
     THEN LinePayloads(Text(body))
     ELSE <<>>]

\* What lines 57-68 make of a body: the whole document, or else the lines.
Parse(body) ==
  [body |-> body, doc |-> resp_json(Text(body)),
   payloads |-> LinePayloads(Text(body))]

\* Parse over the bodies of the model; the EXCEPT changes no entry and only
\* makes TLC compute the table once.
ParseTable == [[b \in AllBodies |-> Parse(b)] EXCEPT ![<<>>] = Parse(<<>>)]

\* --------------------------------------------------------- the cursor
\* One entry of description: (name, type, None, None, None, None, None).
Desc(name, typ) == [name |-> name, typ |-> typ]

\* Cursor.__init__: no rows, position 0, no description, rowcount 0.
NewCursor ==
  [results |-> PyList(<<>>), row_idx |-> 0, description |-> <<>>, rowcount |-> 0]

\* [(f"col{i}", None, ...) for i in range(n)]
SynthCols(n) == [i \in 1..n |-> Desc(PyStr("col" \o ToString(i - 1)), PyNone)]

\* [(col, None, ...) for col in cols], cols the keys of a dict.
KeyCols(ks) == [i \in 1..Len(ks) |-> Desc(PyStr(ks[i]), PyNone)]

\* tuple(p.get(c) for c in cols)
RowOf(p, cols) == PyTuple([j \in 1..Len(cols) |-> DictGet(p, cols[j], PyNone)])

Raised(cur, err) == [cur |-> cur, err |-> err]
Returned(cur) == [cur |-> cur, err |-> "none"]

\* The end of both paths: _row_idx = 0, then rowcount = len(_results), which
\* raises TypeError when _results is a number or None.
Finish(cur) ==
  LET c == [cur EXCEPT !.row_idx = 0] IN
  IF PyLen(c.results) < 0 THEN Raised(c, "TypeError")
  ELSE Returned([c EXCEPT !.rowcount = PyLen(c.results)])

\* ShapeLines as it would be if a body without a JSON line were refused.
ShapeLines_refuses_empty(cur, payloads) ==
  IF payloads = <<>> THEN Raised(cur, "ValueError")
  ELSE IF \A i \in 1..Len(payloads) : IsDict(payloads[i])
  THEN LET cols == payloads[1].keys IN
       Finish([cur EXCEPT
         !.results = PyList([i \in 1..Len(payloads) |-> RowOf(payloads[i], cols)]),
         !.description = KeyCols(cols)])
  ELSE Finish([cur EXCEPT
         !.results = PyList(payloads),
         !.description =
           IF IsSeq(payloads[1])
           THEN SynthCols(Len(payloads[1].items))
           ELSE cur.description])

\* The except-branch of execute: the body held no whole JSON document and
\* payloads are the values of its lines.
ShapeLines(cur, payloads) ==
  IF payloads # <<>> /\ \A i \in 1..Len(payloads) : IsDict(payloads[i])
  THEN LET cols == payloads[1].keys IN
       Finish([cur EXCEPT
         !.results = PyList([i \in 1..Len(payloads) |-> RowOf(payloads[i], cols)]),
         !.description = KeyCols(cols)])
  ELSE Finish([cur EXCEPT
         !.results = PyList(payloads),
         !.description =
           IF payloads # <<>> /\ IsSeq(payloads[1])
           THEN SynthCols(Len(payloads[1].items))
           ELSE cur.description])

\* zip(cols, types) over two lists: as long as the shorter.
ZipCols(cols, types) ==
  [i \in 1..Min(Len(cols.items), Len(types.items)) |->
     Desc(cols.items[i], types.items[i])]

\* The else-branch at line 90: the payload is read as an envelope.
ShapeEnvelope(cur, payload) ==
  IF ~IsDict(payload) THEN Raised(cur, "AttributeError")
  ELSE
    LET data == DictGet(payload, "data", PyList(<<>>))
        cols == DictGet(payload, "columns", PyList(<<>>))
        c1 == [cur EXCEPT !.results = data]
    IN
    IF PyLen(cols) < 0 THEN Raised(c1, "TypeError")
    ELSE
      LET types ==
            DictGet(payload, "types", PyList([i \in 1..PyLen(cols) |-> PyNone]))
      IN
      IF PyTruth(cols)
      THEN IF ~IsSeq(types) THEN Raised(c1, "TypeError")
           ELSE Finish([c1 EXCEPT !.description = ZipCols(cols, types)])
      ELSE IF PyTruth(data)
      THEN IF ~IsSeq(data) \/ PyLen(data.items[1]) < 0
           THEN Raised(c1, "TypeError")
           ELSE Finish([c1 EXCEPT
                  !.description = SynthCols(PyLen(data.items[1]))])
      ELSE Finish([c1 EXCEPT !.description = <<>>])

\* The code after the try: a whole JSON document was read.
ShapeDocument(cur, payload) ==
  IF IsDict(payload) /\ ~(HasKey(payload, "data") \/ HasKey(payload, "columns"))
  THEN Finish([cur EXCEPT
         !.results = PyList(<<PyTuple(payload.items)>>),
         !.description = KeyCols(payload.keys)])
  ELSE ShapeEnvelope(cur, payload)

\* ReadBody as it would be without `self.description = []` at line 55.
ReadBody_keeps_description(cur, body) ==
  LET c0 == [cur EXCEPT !.results = PyList(<<>>)]
      p == ParseTable[body]
  IN IF p.doc.ok THEN ShapeDocument(c0, p.doc.v)
     ELSE ShapeLines(c0, p.payloads)

\* Lines 53-110: the body of a response that passed raise_for_status.
ReadBody(cur, body) ==
  LET c0 == [cur EXCEPT !.results = PyList(<<>>), !.description = <<>>]
      p == ParseTable[body]
  IN IF p.doc.ok THEN ShapeDocument(c0, p.doc.v)
     ELSE ShapeLines(c0, p.payloads)

\* raise_for_status as it would be if only server errors raised.
raise_for_5xx_only(status) == 500 <= status /\ status < 600

\* resp.raise_for_status(): HTTPError for a 4xx or a 5xx status.
raise_for_status(status) == 400 <= status /\ status < 600

\* requests.post(...): one request goes out.
requests_post(n) == n + 1

\* A response: the transport failed ("neterr"), or a status and a body came.
NetErr == [kind |-> "neterr", status |-> 0, body |-> <<>>]
Response(status, body) == [kind |-> "http", status |-> status, body |-> body]

\* execute as it would be with one retry of a request that came back with an
\* error status.
execute_with_retry(cur, n, fmt, resp) ==
  IF fmt = "bad" THEN [cur |-> cur, err |-> "FormatError", sent |-> n]
  ELSE IF resp.kind = "neterr"
    THEN [cur |-> cur, err |-> "ConnectionError", sent |-> requests_post(n)]
  ELSE IF raise_for_status(resp.status)
    THEN [cur |-> cur, err |-> "HTTPError",
          sent |-> requests_post(requests_post(n))]
  ELSE LET r == ReadBody(cur, resp.body)
       IN [cur |-> r.cur, err |-> r.err, sent |-> requests_post(n)]

\* Cursor.execute(query, parameters): fmt is what `query % parameters` does
\* ("none": no parameters, "ok", or "bad": it raises); n counts the requests.
execute(cur, n, fmt, resp) ==
  IF fmt = "bad" THEN [cur |-> cur, err |-> "FormatError", sent |-> n]
  ELSE IF resp.kind = "neterr"
    THEN [cur |-> cur, err |-> "ConnectionError", sent |-> requests_post(n)]
  ELSE IF raise_for_status(resp.status)
    THEN [cur |-> cur, err |-> "HTTPError", sent |-> requests_post(n)]
  ELSE LET r == ReadBody(cur, resp.body)
       IN [cur |-> r.cur, err |-> r.err, sent |-> requests_post(n)]

\* fetchone as it would be with `self._results.pop(0)`: the row returned is
\* taken out of the result set.
fetchone_pops(cur) ==
  IF PyLen(cur.results) < 0
  THEN [cur |-> cur, err |-> "TypeError", ret |-> PyNone, rows |-> <<>>]
  ELSE IF cur.results.items # <<>>
  THEN [cur |-> [cur EXCEPT !.results = PyList(Tail(cur.results.items))],
        err |-> "none", ret |-> Head(cur.results.items),
        rows |-> <<Head(cur.results.items)>>]
  ELSE [cur |-> cur, err |-> "none", ret |-> PyNone, rows |-> <<>>]

\* Cursor.fetchone(): rows are what the caller received as rows.
fetchone(cur) ==
  IF PyLen(cur.results) < 0
  THEN [cur |-> cur, err |-> "TypeError", ret |-> PyNone, rows |-> <<>>]
  ELSE IF cur.row_idx < PyLen(cur.results)
  THEN [cur |-> [cur EXCEPT !.row_idx = cur.row_idx + 1], err |-> "none",
        ret |-> cur.results.items[cur.row_idx + 1],
        rows |-> <<cur.results.items[cur.row_idx + 1]>>]
  ELSE [cur |-> cur, err |-> "none", ret |-> PyNone, rows |-> <<>>]

\* fetchmany as it would be with `self._row_idx += size`: the position moves
\* by the size asked for, past the end of the rows.
fetchmany_moves_by_size(cur, size) ==
  LET n == IF size = 0 THEN 1 ELSE size IN
  IF ~IsSeq(cur.results)
  THEN [cur |-> cur, err |-> "TypeError", ret |-> PyNone, rows |-> <<>>]
  ELSE LET rows == Slice(cur.results.items, cur.row_idx, cur.row_idx + n)
       IN [cur |-> [cur EXCEPT !.row_idx = cur.row_idx + n],
           err |-> "none", ret |-> PyList(rows), rows |-> rows]

\* Cursor.fetchmany(size): size 0 here stands for size=None, which reads 1.
fetchmany(cur, size) ==
  LET n == IF size = 0 THEN 1 ELSE size IN
  IF ~IsSeq(cur.results)
  THEN [cur |-> cur, err |-> "TypeError", ret |-> PyNone, rows |-> <<>>]
  ELSE LET rows == Slice(cur.results.items, cur.row_idx, cur.row_idx + n)
       IN [cur |-> [cur EXCEPT !.row_idx = cur.row_idx + Len(rows)],
           err |-> "none", ret |-> PyList(rows), rows |-> rows]

\* fetchall as it would be with `rows = self._results[:]`: the rows already
\* fetched are returned again.
fetchall_from_start(cur) ==
  IF PyLen(cur.results) < 0
  THEN [cur |-> cur, err |-> "TypeError", ret |-> PyNone, rows |-> <<>>]
  ELSE IF cur.row_idx < PyLen(cur.results)
  THEN [cur |-> [cur EXCEPT !.row_idx = Len(cur.results.items)],
        err |-> "none", ret |-> PyList(cur.results.items),
        rows |-> cur.results.items]
  ELSE [cur |-> cur, err |-> "none", ret |-> PyList(<<>>), rows |-> <<>>]

\* Cursor.fetchall()
fetchall(cur) ==
  IF PyLen(cur.results) < 0
  THEN [cur |-> cur, err |-> "TypeError", ret |-> PyNone, rows |-> <<>>]
  ELSE IF cur.row_idx < PyLen(cur.results)
  THEN LET rows == Slice(cur.results.items, cur.row_idx, Len(cur.results.items))
       IN [cur |-> [cur EXCEPT !.row_idx = Len(cur.results.items)],
           err |-> "none", ret |-> PyList(rows), rows |-> rows]
  ELSE [cur |-> cur, err |-> "none", ret |-> PyList(<<>>), rows |-> <<>>]

\* close as it would be without `self._results = []`.
close_keeps_results(cur) == [cur EXCEPT !.description = <<>>, !.rowcount = 0]

\* Cursor.close(): _row_idx is left as it is.
close(cur) ==
  [cur EXCEPT !.results = PyList(<<>>), !.description = <<>>, !.rowcount = 0]

\* Statuses a server answers with.
Statuses == {200, 304, 404, 500}

\* What requests.post can come back with; the body of an error response
\* is read by nobody and is kept to one line.
ResponsesOver(bodies) ==
  {NetErr} \cup
  {Response(st, b) : st \in {t \in Statuses : ~raise_for_status(t)}, b \in bodies}
  \cup
  {Response(st, b) : st \in {t \in Statuses : raise_for_status(t)},
                     b \in {c \in bodies : Len(c) <= 1}}

Responses == {r : r \in ResponsesOver(Bodies)}
AllResponses == {r : r \in ResponsesOver(AllBodies)}

NoResponse == [kind |-> "none", status |-> 0, body |-> <<>>]

Queries == {"SELECT 1", "INSERT INTO t VALUES (1)"}

\* The read-only classifier on the queries of the model: a plain selection
\* is read-only, an INSERT is not.
IsReadOnly(q) == q = "SELECT 1"

\* Connection.cursor(): a new Cursor object each time it is called.
Connection_cursor == NewCursor

\* -------------------------------------------------------------- state
VARIABLES
  cursor,     \* the Cursor object: _results, _row_idx, description, rowcount
  sent,       \* requests sent so far
  read_only,  \* the read_only keyword handed to connect(), which lands in **kw
  lastOp,     \* the last call made on the cursor
  lastQuery,  \* the query of the last execute
  lastResp,   \* what requests.post came back with in the last execute
  lastErr,    \* the exception the last call raised, or "none"
  lastRet,    \* what the last call returned
  got,        \* the rows the fetches returned since the last execute that returned
  phase,      \* "new", or what the last execute or close left: "executed"
              \* (it returned), "failed" (it raised), "closed"
  other,      \* a second Cursor object of the same connection
  who         \* the cursor the last call was made on: "a" (cursor), "b" (other)

vars == <<cursor, sent, read_only, lastOp, lastQuery, lastResp, lastErr,
          lastRet, got, phase, other, who>>

Init ==
  /\ cursor = NewCursor
  /\ sent = 0
  /\ read_only \in BOOLEAN
  /\ lastOp = "connect"
  /\ lastQuery = ""
  /\ lastResp = NoResponse
  /\ lastErr = "none"
  /\ lastRet = PyNone
  /\ got = <<>>
  /\ phase = "new"
  /\ other = Connection_cursor
  /\ who = "a"

\* One call of execute, with what the transport does given.
DoExecute(q, fmt, resp) ==
  LET r == execute(cursor, sent, fmt, resp) IN
  /\ cursor' = r.cur
  /\ sent' = r.sent
  /\ lastOp' = "execute"
  /\ lastQuery' = q
  /\ lastResp' = resp
  /\ lastErr' = r.err
  /\ lastRet' = PyNone
  /\ got' = <<>>
  /\ phase' = IF r.err = "none" THEN "executed" ELSE "failed"
  /\ UNCHANGED <<read_only, other, who>>

Execute ==
  /\ sent < MaxRequests
  /\ \E q \in Queries, resp \in Responses : DoExecute(q, "ok", resp)

\* `query % parameters` raises: nothing is sent.
ExecuteBadParameters ==
  \E q \in Queries : DoExecute(q, "bad", NoResponse)

DoFetch(op, r) ==
  /\ cursor' = r.cur
  /\ lastOp' = op
  /\ lastErr' = r.err
  /\ lastRet' = r.ret
  /\ got' = got \o r.rows
  /\ UNCHANGED <<sent, read_only, lastQuery, lastResp, phase, other, who>>

Fetchone == DoFetch("fetchone", fetchone(cursor))

Fetchmany == \E size \in 0..MaxFetch : DoFetch("fetchmany", fetchmany(cursor, size))

Fetchall == DoFetch("fetchall", fetchall(cursor))

Close ==
  /\ cursor' = close(cursor)
  /\ lastOp' = "close"
  /\ lastErr' = "none"
  /\ lastRet' = PyNone
  /\ got' = <<>>
  /\ phase' = "closed"
  /\ UNCHANGED <<sent, read_only, lastQuery, lastResp, other, who>>

Next ==
  \/ Execute
  \/ ExecuteBadParameters
  \/ Fetchone
  \/ Fetchmany
  \/ Fetchall
  \/ Close

Spec == Init /\ [][Next]_vars

\* One execute on a new cursor, over every body of the model, and the
\* fetches that follow it.
InitOnce == Init /\ ~read_only

ExecuteOnce ==
  /\ lastOp = "connect"
  /\ \E resp \in AllResponses : DoExecute("SELECT 1", "ok", resp)

NextOnce ==
  \/ ExecuteOnce
  \/ Fetchone
  \/ Fetchmany
  \/ Fetchall

SpecOnce == InitOnce /\ [][NextOnce]_vars

\* Two cursors of one connection, called in any interleaving.
CursorNames == {"a", "b"}
Pair == [a |-> cursor, b |-> other]

\* The responses the two cursors are run on: two rows, two rows of an
\* envelope, a document execute fails on, an error status, no answer.
PairResponses ==
  {NetErr, Response(500, <<>>), Response(200, <<"objx", "objyx">>),
   Response(200, <<"env">>), Response(200, <<"arr">>)}

\* The attributes as they would be if they were kept on the class: a method
\* called on one cursor writes what every cursor reads.
StoreShared(pair, name, cur) == [n \in DOMAIN pair |-> cur]

\* self._results = ..., self._row_idx = ..., self.description = ...,
\* self.rowcount = ...: a method writes the attributes of the object it is
\* called on.
Store(pair, name, cur) == [pair EXCEPT ![name] = cur]

\* One call on the cursor `name`, r what the call does to it.
PairCall(name, op, r) ==
  LET p == Store(Pair, name, r.cur) IN
  /\ cursor' = p.a
  /\ other' = p.b
  /\ who' = name
  /\ lastOp' = op
  /\ lastErr' = r.err
  /\ lastRet' = r.ret
  /\ UNCHANGED <<read_only, got, phase>>

PairExecute ==
  /\ sent < MaxRequests
  /\ \E name \in CursorNames, resp \in PairResponses :
       LET r == execute(Pair[name], sent, "ok", resp) IN
       /\ PairCall(name, "execute", [cur |-> r.cur, err |-> r.err, ret |-> PyNone])
       /\ sent' = r.sent
       /\ lastQuery' = "SELECT 1"
       /\ lastResp' = resp

PairFetchone ==
  /\ \E name \in CursorNames : PairCall(name, "fetchone", fetchone(Pair[name]))
  /\ UNCHANGED <<sent, lastQuery, lastResp>>

PairFetchmany ==
  /\ \E name \in CursorNames, size \in 0..MaxFetch :
       PairCall(name, "fetchmany", fetchmany(Pair[name], size))
  /\ UNCHANGED <<sent, lastQuery, lastResp>>

PairFetchall ==
  /\ \E name \in CursorNames : PairCall(name, "fetchall", fetchall(Pair[name]))
  /\ UNCHANGED <<sent, lastQuery, lastResp>>

PairClose ==
  /\ \E name \in CursorNames :
       PairCall(name, "close",
                [cur |-> close(Pair[name]), err |-> "none", ret |-> PyNone])
  /\ UNCHANGED <<sent, lastQuery, lastResp>>

NextPair ==
  \/ PairExecute
  \/ PairFetchone
  \/ PairFetchmany
  \/ PairFetchall
  \/ PairClose

SpecPair == InitOnce /\ [][NextPair]_vars

\* ------------------------------------------------------------- claims
FetchOps == {"fetchone", "fetchmany", "fetchall"}
FetchSizes == 0..MaxFetch
Rows == cursor.results.items
EmptyList == PyList(<<>>)

\* What the three fetches would do in the current state.
NoFetchRaises ==
  /\ fetchone(cursor).err = "none"
  /\ fetchall(cursor).err = "none"
  /\ \A n \in FetchSizes : fetchmany(cursor, n).err = "none"

FetchesSeeNoRow ==
  /\ NoFetchRaises
  /\ fetchone(cursor).ret = PyNone
  /\ fetchall(cursor).ret = EmptyList
  /\ \A n \in FetchSizes : fetchmany(cursor, n).ret = EmptyList

\* C1: after an execute that returned, while only fetches are called, the
\* rows returned so far, in call order, are rows 0..pos-1 of the held
\* result set; so once the data is exhausted (the position is at the end,
\* fetchall returned, or a fetch gave its end-of-data answer) they are all
\* R rows in order, none repeated, none skipped.
C1_CursorConservation ==
  phase = "executed" =>
    /\ IsSeq(cursor.results)
    /\ cursor.row_idx <= Len(Rows)
    /\ got = SubSeq(Rows, 1, cursor.row_idx)
    /\ (cursor.row_idx = Len(Rows) => got = Rows)
    /\ (lastOp = "fetchall" => got = Rows)
    /\ (lastOp = "fetchmany" /\ lastRet = EmptyList => got = Rows)
    /\ (lastOp = "fetchone" /\ lastRet = PyNone /\ PyNone \notin Range(Rows)
          => got = Rows)

\* Two rows, the first taken by another call than the one that took the last.
C1_Witness ==
  /\ phase = "executed"
  /\ Len(Rows) = 2
  /\ got = Rows
  /\ lastOp = "fetchone"
  /\ sent = 2

\* C2: after an execute that raised, whatever the cursor held before, every
\* fetch sees an empty result set.
C2_FailedExecuteLeavesEmpty ==
  (lastOp = "execute" /\ lastErr # "none") => FetchesSeeNoRow

\* C3: the position is within the held result set, 0 <= pos <= len(rows).
C3_PositionWithinRows ==
  0 <= cursor.row_idx /\ cursor.row_idx <= PyLen(cursor.results)

\* C4: between a close and the next execute the description is empty and
\* every fetch, made or still to make, answers as on a new cursor: no row,
\* no exception.
C4_CloseResets ==
  phase = "closed" =>
    /\ cursor.description = NewCursor.description
    /\ FetchesSeeNoRow
    /\ fetchone(cursor).ret = fetchone(NewCursor).ret
    /\ fetchall(cursor).ret = fetchall(NewCursor).ret
    /\ \A n \in FetchSizes : fetchmany(cursor, n).ret = fetchmany(NewCursor, n).ret
    /\ (lastOp \in FetchOps =>
          /\ lastErr = "none"
          /\ lastRet = IF lastOp = "fetchone" THEN PyNone ELSE EmptyList)

\* A cursor closed after one of its two rows was read, and then fetched from.
C4_Witness ==
  /\ phase = "closed"
  /\ cursor.row_idx = 1
  /\ lastOp = "fetchall"

\* A step that is a call of execute.
ExecuteStep == lastOp' = "execute" /\ vars' # vars

\* C5: with read_only on, an execute of a query the classifier rejects
\* raises a permission error and sends no request.
C5_ReadOnlyGate ==
  [][(ExecuteStep /\ read_only /\ ~IsReadOnly(lastQuery'))
       => (lastErr' = "PermissionError" /\ sent' = sent)]_vars

\* A response came back in the last execute, with this status.
Answered == lastOp = "execute" /\ lastResp.kind = "http"

NoJsonInBody ==
  /\ \E i \in 1..Len(lastResp.body) : lastResp.body[i] # "blank"
  /\ ~ParseTable[lastResp.body].doc.ok
  /\ ParseTable[lastResp.body].payloads = <<>>

\* C7: a 2xx response with such a body makes execute raise a parse error.
C7_NoJsonRaises ==
  (Answered /\ lastResp.status = 200 /\ NoJsonInBody) => lastErr # "none"

\* C8: a call of execute sends exactly one request when it reaches the
\* transport and none when it raises before (the parameters do not fit the
\* query); fetchone, fetchmany, fetchall and close send none.
C8_OneRequestPerExecute ==
  [][/\ ExecuteStep =>
          sent' = sent + (IF lastErr' = "FormatError" THEN 0 ELSE 1)
     /\ lastOp' \in FetchOps \cup {"close"} => sent' = sent]_vars

\* Two executes were answered, one of them with an error status, and a close
\* followed.
C8_Witness ==
  /\ sent = 2
  /\ lastResp.status = 500
  /\ lastOp = "close"

\* The payload of the last response when it is an array: the elements of a
\* whole-document JSON array, or else the values of the lines.
LastParse == ParseTable[lastResp.body]
PayloadIsArray == LastParse.doc.ok => LastParse.doc.v.k = "list"
Elems == IF LastParse.doc.ok THEN LastParse.doc.v.items ELSE LastParse.payloads

ArrayAnswer == Answered /\ lastResp.status = 200 /\ PayloadIsArray /\ Elems # <<>>

\* C9: an array of objects, whole-document or line-delimited, yields the keys
\* of its first element as columns and one row per element, the i-th value
\* the element's value for the i-th column, null where it has none.
C9_ArrayOfObjects ==
  (ArrayAnswer /\ \A i \in 1..Len(Elems) : IsDict(Elems[i])) =>
    LET cols == Elems[1].keys IN
    /\ lastErr = "none"
    /\ Len(cursor.description) = Len(cols)
    /\ \A j \in 1..Len(cols) : cursor.description[j].name = PyStr(cols[j])
    /\ IsSeq(cursor.results) /\ Len(Rows) = Len(Elems)
    /\ \A i \in 1..Len(Elems) :
         /\ Len(Rows[i].items) = Len(cols)
         /\ \A j \in 1..Len(cols) :
              Rows[i].items[j] = DictGet(Elems[i], cols[j], PyNone)

\* C10: an array of sequences, whole-document or line-delimited, yields the
\* columns col0..col(N-1), N the width of its first element, and its
\* elements as the rows, each with its own width.
C10_ArrayOfSequences ==
  (ArrayAnswer /\ \A i \in 1..Len(Elems) : IsSeq(Elems[i])) =>
    LET n == Len(Elems[1].items) IN
    /\ lastErr = "none"
    /\ Len(cursor.description) = n
    /\ \A j \in 1..n :
         cursor.description[j].name = PyStr("col" \o ToString(j - 1))
    /\ cursor.results = PyList(Elems)

\* The elements of the array are neither all objects nor all sequences:
\* all scalars, or of mixed kinds.
ScalarOrMixed ==
  /\ \E i \in 1..Len(Elems) : ~IsDict(Elems[i])
  /\ \E i \in 1..Len(Elems) : ~IsSeq(Elems[i])

\* C11: a non-empty array of scalars or of mixed kinds, whole-document or
\* line-delimited, yields the single column col0 and one row of width 1 per
\* element, in order, the row wrapping the element.
C11_ScalarsWrapped ==
  (ArrayAnswer /\ ScalarOrMixed) =>
    /\ lastErr = "none"
    /\ Len(cursor.description) = 1
    /\ cursor.description[1].name = PyStr("col0")
    /\ cursor.results = PyList([i \in 1..Len(Elems) |-> PyTuple(<<Elems[i]>>)])

\* The last execute returned, and its payload was an envelope or a bare
\* object (a whole-document JSON object) or an array of objects (here the
\* values of the lines: a whole-document array makes execute raise).
ObjectPayload ==
  /\ Answered /\ lastErr = "none"
  /\ \/ LastParse.doc.ok /\ IsDict(LastParse.doc.v)
     \/ /\ ~LastParse.doc.ok
        /\ LastParse.payloads # <<>>
        /\ \A i \in 1..Len(LastParse.payloads) : IsDict(LastParse.payloads[i])

\* C12: after a successful execute whose payload is an envelope, a bare
\* object or an array of objects, every row held has exactly as many values
\* as the description has columns.
C12_WidthInvariant ==
  ObjectPayload =>
    /\ IsSeq(cursor.results)
    /\ \A i \in 1..Len(Rows) : PyLen(Rows[i]) = Len(cursor.description)

\* The last response was parsed as an envelope: a whole-document JSON object
\* with a columns key or a data key, whose data is absent or an array of
\* arrays and whose columns and types are absent or arrays.
Envelope == LastParse.doc.v
EnvData == DictGet(Envelope, "data", EmptyList)
EnvColumns == DictGet(Envelope, "columns", EmptyList)
EnvTypes == DictGet(Envelope, "types", EmptyList)

EnvelopeAnswer ==
  /\ Answered /\ ~(400 <= lastResp.status /\ lastResp.status <= 599)
  /\ LastParse.doc.ok /\ IsDict(Envelope)
  /\ HasKey(Envelope, "columns") \/ HasKey(Envelope, "data")
  /\ IsSeq(EnvData) /\ \A i \in 1..Len(EnvData.items) : IsSeq(EnvData.items[i])
  /\ IsSeq(EnvColumns) /\ IsSeq(EnvTypes)

\* C13: for an envelope the rows are its data array (empty when absent) and
\* the description has one descriptor per entry of columns, in order, typed
\* by the entry of types at the same index, or untyped when types has none
\* there; with columns absent or empty the descriptors are col0..col(w-1),
\* w the width of the first row, or none when there are no rows.
C13_EnvelopeDescriptors ==
  EnvelopeAnswer =>
    LET cols == EnvColumns.items
        types == EnvTypes.items
        desc == cursor.description
    IN
    /\ lastErr = "none"
    /\ cursor.results = EnvData
    /\ IF cols # <<>>
       THEN /\ Len(desc) = Len(cols)
            /\ \A j \in 1..Min(Len(desc), Len(cols)) :
                 /\ desc[j].name = cols[j]
                 /\ desc[j].typ = IF j <= Len(types) THEN types[j] ELSE PyNone
       ELSE IF EnvData.items # <<>>
       THEN desc = SynthCols(Len(EnvData.items[1].items))
       ELSE desc = <<>>

\* Cursor states an execute can start from, next to the current one.
PriorCursors ==
  {NewCursor, cursor, close(cursor), fetchone(cursor).cur, fetchall(cursor).cur}

\* C14: after an execute that returned, the cursor is what the new response
\* alone makes of a new cursor: position 0, the result set, description and
\* row count of the new payload; the same response executed from any other
\* prior cursor state leaves the same state.
C14_ExecuteReplacesState ==
  [][(ExecuteStep /\ lastErr' = "none") =>
       /\ cursor'.row_idx = 0
       /\ cursor'.rowcount = PyLen(cursor'.results)
       /\ cursor' = ReadBody(NewCursor, lastResp'.body).cur
       /\ \A prior \in PriorCursors :
            /\ ReadBody(prior, lastResp'.body).err = "none"
            /\ ReadBody(prior, lastResp'.body).cur = cursor']_vars

\* A second execute returned two scalar rows, for which execute sets no
\* description, on a cursor whose first execute was answered.
C14_Witness ==
  /\ lastOp = "execute" /\ lastErr = "none"
  /\ sent = 2
  /\ lastResp.body = <<"null", "num">>
  /\ cursor.description = <<>>
  /\ cursor.row_idx = 0 /\ cursor.rowcount = 2

\* The last response was read line by line: its body is no whole JSON
\* document.
LineDelimited ==
  /\ Answered /\ ~(400 <= lastResp.status /\ lastResp.status <= 599)
  /\ ~LastParse.doc.ok

\* A line that is not blank and is a JSON document.
LineParses(line) == line # <<>> /\ json_loads(line).ok

\* The values of the lines of the last body that parse, in body order.
ParsedLineValues ==
  LET good == SelectSeq(Text(lastResp.body), LineParses)
  IN [i \in 1..Len(good) |-> json_loads(good[i]).v]

\* C15: a body that is no whole JSON document is read as the array of the
\* values of exactly its non-blank lines that parse, in their order; a line
\* that does not parse is dropped, execute returns, and the cursor holds one
\* row per such line: what the shaping of that array gives.
C15_LinesThatParse ==
  LineDelimited =>
    LET vals == ParsedLineValues IN
    /\ lastErr = "none"
    /\ LastParse.payloads = vals
    /\ IsSeq(cursor.results) /\ Len(Rows) = Len(vals)
    /\ cursor.rowcount = Len(vals)
    /\ [cursor EXCEPT !.row_idx = 0] = ShapeLines(NewCursor, vals).cur

\* Three lines, the middle one no JSON: the first and the last are the rows.
C15_Witness ==
  /\ LineDelimited
  /\ lastResp.body = <<"objx", "bad", "objyx">>
  /\ lastErr = "none"
  /\ Rows = <<PyTuple(<<PyInt("1")>>), PyTuple(<<PyInt("3")>>)>>
  /\ cursor.rowcount = 2

\* C16: a call on one cursor of a connection, whatever the calls made on
\* the other before, leaves the other cursor's result set, description, row
\* count and position as they were.
C16_CursorsIndependent ==
  [][/\ who' = "a" => other' = other
     /\ who' = "b" => cursor' = cursor]_vars

\* Both cursors hold rows, of different responses, at different positions,
\* and the first was just read to its end.
C16_Witness ==
  /\ who = "a" /\ lastOp = "fetchall"
  /\ Len(cursor.results.items) = 2 /\ cursor.row_idx = 2
  /\ Len(other.results.items) = 2 /\ other.row_idx = 1
  /\ other.results # cursor.results
  /\ other.description # cursor.description

\* The position is at the end of the rows held.
Exhausted == IsSeq(cursor.results) /\ cursor.row_idx = Len(Rows)

\* C17: once the position equals the number of rows, every fetchone returns
\* None and every fetchmany and fetchall returns an empty list, none raises
\* and none moves the position, so the cursor stays exhausted until the
\* next execute; a close in between leaves every fetch without a row too.
C17_ExhaustionStable ==
  [][/\ (Exhausted /\ lastOp' \in FetchOps) =>
          /\ lastErr' = "none"
          /\ lastRet' = IF lastOp' = "fetchone" THEN PyNone ELSE EmptyList
          /\ cursor' = cursor
          /\ Exhausted'
     /\ (Exhausted /\ lastOp' = "close") => FetchesSeeNoRow']_vars

\* Both rows were fetched and the fetchmany after them returned an empty
\* list.
C17_Witness ==
  /\ phase = "executed" /\ Exhausted
  /\ Len(Rows) = 2 /\ got = Rows
  /\ lastOp = "fetchmany" /\ lastRet = EmptyList

\* The body of the last response is empty or holds blank lines only.
BlankBody == \A i \in 1..Len(lastResp.body) : lastResp.body[i] = "blank"

\* The last execute was answered with a 2xx status and such a body; fetches
\* may have followed it.
BlankAnswer ==
  /\ lastOp \in {"execute"} \cup FetchOps
  /\ lastResp.kind = "http"
  /\ 200 <= lastResp.status /\ lastResp.status <= 299
  /\ BlankBody

\* C18: a 2xx response with an empty or blank body makes execute return
\* with no column and no row, and the fetchone after it returns None.
C18_EmptyBodyIsNoError ==
  BlankAnswer =>
    /\ lastErr = "none"
    /\ phase = "executed"
    /\ cursor.description = <<>>
    /\ cursor.results = EmptyList
    /\ cursor.rowcount = 0
    /\ fetchone(cursor).err = "none" /\ fetchone(cursor).ret = PyNone
    /\ got = <<>>
    /\ lastOp = "fetchone" => (lastErr = "none" /\ lastRet = PyNone)

\* A body of one blank line was executed and fetchone called.
C18_Witness ==
  /\ BlankAnswer
  /\ lastResp.body = <<"blank">>
  /\ phase = "executed"
  /\ lastOp = "fetchone" /\ lastRet = PyNone

\* C19: in every state, whatever calls came before and wherever an execute
\* raised, rowcount is the number of rows of the result set held.
C19_RowcountIsLen == cursor.rowcount = PyLen(cursor.results)

\* C20: a fetchone, fetchmany or fetchall leaves the result set, the
\* description and the rowcount as they were and moves the position forward
\* or not at all; no call other than execute moves the position back.
C20_FetchesMoveOnlyPosition ==
  [][/\ lastOp' \in FetchOps =>
          /\ cursor'.results = cursor.results
          /\ cursor'.description = cursor.description
          /\ cursor'.rowcount = cursor.rowcount
          /\ cursor'.row_idx = cursor.row_idx + Len(got') - Len(got)
     /\ lastOp' # "execute" => cursor'.row_idx >= cursor.row_idx]_vars

\* One of two rows was fetched by fetchone: the rows, the description and
\* the rowcount are still those execute left.
C20_Witness ==
  /\ phase = "executed"
  /\ lastOp = "fetchone" /\ Len(got) = 1
  /\ cursor.row_idx = 1
  /\ Len(Rows) = 2 /\ cursor.rowcount = 2
  /\ Len(cursor.description) = 1

====
